---- MODULE Spec2Model ----
(***************************************************************************)
(* A model of the heap allocator of src/heap.c.                            *)
(*                                                                         *)
(* Memory is one byte-addressable array `mem`, from the static FreeList    *)
(* anchor up to the program break.  An `info` tag is four little-endian    *)
(* bytes, a chunk pointer eight (the code's own assumption: H_IS = 4,      *)
(* H_PS = 8).  Every C function of heap.c is an operator that takes the    *)
(* allocator state (a record h, or only its memory m) and returns the new  *)
(* one; every public entry point is one action.                            *)
(***************************************************************************)
EXTENDS Integers, Sequences, FiniteSets, TLC

\* ------------------------------------------------------------------------
\* Sizes of things (heap.c lines 38-55)
H_PS == 8
H_IS == 4
H_MINPAYLOAD == 2 * H_PS
H_MINCHUNK == H_MINPAYLOAD + 2 * H_IS
H_FREE == 1

\* int is 32 bits wide
IntMax == 2147483647
IntMin == -IntMax - 1

\* getpagesize().  The code takes whatever the system reports ("likely 4096");
\* the model runs on a system with small pages, so that every byte of the heap
\* is part of the state.  Nothing below depends on the value but through
\* PAGE_SIZE, and a chunk of a fresh page still holds more than H_MINPAYLOAD.
PageSize == 64
\* the address of the static array FreeList[1] (20 bytes, packed), which lies
\* in the data segment right below the initial program break
FreeList == 40
\* sbrk(0) at the first call of init()
InitBrk == 64
\* a byte of memory the program has not written since sbrk handed it out
Uninit == -1

\* Bound of the model: a run makes at most MaxCalls calls of public methods.
MaxCalls == 3

\* ------------------------------------------------------------------------
\* C integer arithmetic

\* a + b on 32-bit int with wrap-around (also: size_t arithmetic stored back
\* into an int), computed without leaving the 32-bit range
WrapAdd(a, b) ==
  IF b >= 0
    THEN IF a > IntMax - b THEN ((a - IntMax - 1) + b) + IntMin ELSE a + b
    ELSE IF a < IntMin - b THEN ((a - IntMin) + b) + IntMax + 1 ELSE a + b

\* a - b on 32-bit int with wrap-around
WrapSub(a, b) == IF b = IntMin THEN WrapAdd(WrapAdd(a, IntMax), 1) ELSE WrapAdd(a, -b)

\* (p + H_PS-1)/H_PS*H_PS of ck_split: computed in size_t (64 bits, unsigned,
\* where it never overflows) and stored back into an int
RoundUpPS(p) ==
  IF p > IntMax - (H_PS - 1) THEN IntMin ELSE ((p + (H_PS - 1)) \div H_PS) * H_PS

\* !x of C
LogNot(x) == IF x = 0 THEN 1 ELSE 0

\* a / b of C (b > 0): truncation toward zero
CDiv(a, b) == IF a >= 0 THEN a \div b ELSE -((-a) \div b)

\* (int)a < (size_t)b for a small b >= 0: the int is converted to unsigned,
\* so a negative a compares as a huge value
LtSizeT(a, b) == a >= 0 /\ a < b

\* i & H_SIZEMASK, i & H_FREE, i | H_FREE on two's complement
SizeMask(i) == i - (i % 8)
FreeBit(i) == i % 2
OrFree(i) == IF i % 2 = 1 THEN i ELSE i + 1

\* ------------------------------------------------------------------------
\* Byte-addressable memory: reads and writes of info tags and of pointers

InMem(m, a, n) == a \in DOMAIN m /\ (a + n - 1) \in DOMAIN m

\* the k-th byte (k = 0..3) of a 32-bit value, little endian
ByteOf(v, k) ==
  LET d == IF k = 0 THEN 1 ELSE IF k = 1 THEN 256 ELSE IF k = 2 THEN 65536 ELSE 16777216
  IN  (v \div d) % 256

ReadInfo(m, a) ==
  LET b3 == IF m[a + 3] >= 128 THEN m[a + 3] - 256 ELSE m[a + 3]
  IN  m[a] + 256 * m[a + 1] + 65536 * m[a + 2] + 16777216 * b3

WriteInfo(m, a, v) ==
  [m EXCEPT ![a] = ByteOf(v, 0), ![a + 1] = ByteOf(v, 1),
            ![a + 2] = ByteOf(v, 2), ![a + 3] = ByteOf(v, 3)]

\* a pointer is 8 bytes; every address of the model fits its low 4 bytes
ReadPtr(m, a) == ReadInfo(m, a)

WritePtr(m, a, v) ==
  [m EXCEPT ![a] = ByteOf(v, 0), ![a + 1] = ByteOf(v, 1),
            ![a + 2] = ByteOf(v, 2), ![a + 3] = ByteOf(v, 3),
            ![a + 4] = 0, ![a + 5] = 0, ![a + 6] = 0, ![a + 7] = 0]

\* struct chunk (packed): header at +0, prev at +4, next at +12
PrevOf(m, c) == ReadPtr(m, c + H_IS)
NextOf(m, c) == ReadPtr(m, c + H_IS + H_PS)
SetPrev(m, c, v) == WritePtr(m, c + H_IS, v)
SetNext(m, c, v) == WritePtr(m, c + H_IS + H_PS, v)

\* ------------------------------------------------------------------------
\* Sequencing: F applied to the value of v, which is computed once.  The C
\* functions below are sequences of stores; each store's result is bound
\* before the next statement reads it.
Bind(v, F(_)) == CHOOSE r \in {F(x) : x \in {v}} : TRUE

\* ------------------------------------------------------------------------
\* Chunk codec

ck_size(m, c) == SizeMask(ReadInfo(m, c))

ck_payloadSize(m, c) == WrapAdd(ck_size(m, c), -(2 * H_IS))

ck_footerAddr(m, c) == c + SizeMask(ReadInfo(m, c)) - H_IS

ck_setInfo(m, c, i) ==
  Bind(WriteInfo(m, c, i), LAMBDA m1 :
  WriteInfo(m1, ck_footerAddr(m1, c), i))

\* ------------------------------------------------------------------------
\* Free list

fl_insert(m, l, c) ==
  Bind(SetPrev(m, c, l), LAMBDA m1 :
  Bind(SetNext(m1, c, NextOf(m1, l)), LAMBDA m2 :
  Bind(SetPrev(m2, NextOf(m2, l), c), LAMBDA m3 :
  SetNext(m3, l, c))))

fl_remove(m, c) ==
  Bind(SetNext(m, PrevOf(m, c), NextOf(m, c)), LAMBDA m1 :
  SetPrev(m1, NextOf(m1, c), PrevOf(m1, c)))

\* the chunks met from l->next until l comes round again (at most k of them)
RECURSIVE fl_walk(_, _, _, _)
fl_walk(m, l, p, k) ==
  IF p = l \/ k = 0 THEN << >> ELSE << p >> \o fl_walk(m, l, NextOf(m, p), k - 1)

fl_members(m, l) == fl_walk(m, l, NextOf(m, l), 2 * MaxCalls + 2)

fl_size(m, l) == Len(fl_members(m, l))

\* The scanning loop of fl_findBestFit ends in "return bestSoFar" inside its
\* body (line 358), so the body runs at most once, on p = l->next.
fl_findBestFit(m, l, targetPayload) ==
  LET bestSoFar == l
      p == NextOf(m, l)
      bestExcess == 0
  IN  IF p = l THEN bestSoFar
      ELSE IF ck_payloadSize(m, p) < targetPayload THEN bestSoFar
      ELSE IF ck_payloadSize(m, p) = targetPayload THEN p
      ELSE LET excess == ck_payloadSize(m, p) - targetPayload
           IN  IF bestExcess = 0 \/ excess < bestExcess THEN p ELSE bestSoFar

\* ------------------------------------------------------------------------
\* ck_split, ck_merge

\* returns the memory and the remainder chunk (0: not split)
ck_split(m, c, paysize0) ==
  IF ~LtSizeT(paysize0, H_MINPAYLOAD)
    THEN LET CHUNK_SIZE == ck_size(m, c)
             paysize == RoundUpPS(paysize0)
             size_c == WrapAdd(paysize, 2 * H_IS)
             size_d == WrapSub(CHUNK_SIZE, size_c)
         IN  IF LtSizeT(size_d, H_MINCHUNK)
               THEN [m |-> m, ret |-> 0]
               ELSE Bind(ck_setInfo(m, c, size_c), LAMBDA m1 :
                    Bind(ck_footerAddr(m1, c) + H_IS, LAMBDA d :
                    Bind(ck_setInfo(m1, d, OrFree(size_d)), LAMBDA m2 :
                    [m |-> fl_insert(m2, FreeList, d), ret |-> d])))
    ELSE [m |-> m, ret |-> 0]

ck_merge(m, c1, c2) ==
  Bind(fl_remove(m, c1), LAMBDA m1 :
  Bind(fl_remove(m1, c2), LAMBDA m2 :
  Bind(ck_size(m2, c1) + ck_size(m2, c2), LAMBDA totalSize :
  Bind(ck_setInfo(m2, c1, OrFree(totalSize)), LAMBDA m3 :
  fl_insert(m3, c1, FreeList)))))

\* ------------------------------------------------------------------------
\* The operating system: the program break

\* sbrk(incr) on the allocator state h: the break moves by incr and the old
\* break is returned; -1 (and no change) when the break would leave the
\* range the system allows
sbrk(h, incr) ==
  IF incr > h.rlimit - h.brk \/ h.brk + incr < InitBrk
    THEN [h |-> h, ret |-> -1]
  ELSE IF incr >= 0
    THEN [h |-> [h EXCEPT !.brk = h.brk + incr,
                          !.mem = h.mem @@ [a \in h.brk..(h.brk + incr - 1) |-> Uninit]],
          ret |-> h.brk]
    ELSE [h |-> [h EXCEPT !.brk = h.brk + incr,
                          !.mem = [a \in FreeList..(h.brk + incr - 1) |-> h.mem[a]]],
          ret |-> h.brk]

\* memset(p, v, n), memcpy(q, p, n) and strcpy(q, s) on the memory.  A copy
\* between overlapping ranges is undefined: fwd chooses between the two
\* outcomes a byte-wise copy gives (ascending or descending addresses).
memset(m, p, v, n) == [a \in p..(p + n - 1) |-> v] @@ m

memcpy(m, q, p, n, fwd) ==
  [a \in q..(q + n - 1) |->
     IF fwd /\ q > p /\ q < p + n THEN m[p + ((a - q) % (q - p))]
                                  ELSE m[p + (a - q)]] @@ m

strcpy(m, q, s) ==
  [a \in q..(q + Len(s)) |-> IF a < q + Len(s) THEN s[a - q + 1] ELSE 0] @@ m

\* ------------------------------------------------------------------------
\* init, grow

init(h) ==
  IF h.BASE # 0 THEN h
  ELSE Bind(WriteInfo(h.mem, FreeList, 0), LAMBDA m1 :
       Bind(SetPrev(m1, FreeList, FreeList), LAMBDA m2 :
       Bind(SetNext(m2, FreeList, FreeList), LAMBDA m3 :
       Bind(sbrk([h EXCEPT !.mem = m3], 0), LAMBDA s :
       [s.h EXCEPT !.BASE = s.ret, !.HWM = s.ret, !.PAGE_SIZE = PageSize]))))

\* the byte count grow asks of sbrk for a payload of delta bytes
grow_delta(delta, pageSize) ==
  LET d1 == WrapAdd(delta, 4 * H_IS)
  IN  CDiv(WrapAdd(WrapAdd(d1, pageSize), -1), pageSize) * pageSize

\* returns the state and the new chunk.  A store through a pointer that is
\* not in the program's memory (sbrk's -1) ends the process: fault.
grow(h0, delta, l) ==
  Bind(init(h0), LAMBDA h1 :
  Bind(sbrk(h1, grow_delta(delta, h1.PAGE_SIZE)), LAMBDA s :
  Bind([s.h EXCEPT !.HWM = sbrk(s.h, 0).ret], LAMBDA h2 :
  Bind(h2.HWM - H_IS, LAMBDA end :
    IF ~InMem(h2.mem, s.ret, H_IS) \/ ~InMem(h2.mem, end, H_IS)
      THEN [h |-> [h2 EXCEPT !.fault = TRUE], ret |-> 0]
      ELSE Bind(WriteInfo(h2.mem, s.ret, 0), LAMBDA m1 :
           Bind(WriteInfo(m1, end, 0), LAMBDA m2 :
           Bind(s.ret + H_IS, LAMBDA c :
           Bind(end - c, LAMBDA size :
           Bind(ck_setInfo(m2, c, OrFree(size)), LAMBDA m3 :
           [h |-> [h2 EXCEPT !.mem = fl_insert(m3, l, c)], ret |-> c]))))) ))))

\* ------------------------------------------------------------------------
\* Public methods.  Each returns the allocator state h and what the caller
\* gets back (ret); a faulted state returns nothing (ret = 0).

\* hmalloc without lines 391-392: the chunk is handed out as it was found
hmalloc_take_asfound(h, found) == [h |-> h, ret |-> found + H_IS]

\* hmalloc without line 392: the chunk is marked in use and left on the list
hmalloc_take_nounlink(h, found) ==
  [h |-> [h EXCEPT !.mem = ck_setInfo(h.mem, found, ck_size(h.mem, found))],
   ret |-> found + H_IS]

\* hmalloc lines 391-394: mark the chunk in use, unlink it, return the payload
hmalloc_take(h, found) ==
  Bind(ck_setInfo(h.mem, found, ck_size(h.mem, found)), LAMBDA m1 :
  [h |-> [h EXCEPT !.mem = fl_remove(m1, found)], ret |-> found + H_IS])

\* the size hmalloc works with: at least H_MINPAYLOAD
hmalloc_clamp(size) == IF LtSizeT(size, H_MINPAYLOAD) THEN H_MINPAYLOAD ELSE size

hmalloc(h0, size0) ==
  Bind(init(h0), LAMBDA h1 :
  Bind(hmalloc_clamp(size0), LAMBDA size :
  Bind(fl_findBestFit(h1.mem, FreeList, size), LAMBDA found :
    IF ReadInfo(h1.mem, found) = 0
      THEN Bind(grow(h1, size, FreeList), LAMBDA g :
             IF g.h.fault THEN g ELSE hmalloc_take(g.h, g.ret))
      ELSE Bind(ck_split(h1.mem, found, size), LAMBDA sp :
             hmalloc_take([h1 EXCEPT !.mem = sp.m], found)))))

hcalloc(h0, count, size) ==
  Bind(init(h0), LAMBDA h1 :
  Bind(count * size, LAMBDA n :
  Bind(hmalloc(h1, n), LAMBDA r :
    IF r.h.fault THEN r
    ELSE IF n > 0 /\ ~InMem(r.h.mem, r.ret, n)
      THEN [h |-> [r.h EXCEPT !.fault = TRUE], ret |-> 0]
      ELSE [h |-> [r.h EXCEPT !.mem = memset(r.h.mem, r.ret, 0, n)], ret |-> r.ret])))

\* hfree without its test: every call releases
hfree_test_always(header) == TRUE

\* the test of hfree, as C parses it: (!(theChunk->header)) & H_FREE
hfree_test(header) == FreeBit(LogNot(header)) # 0

\* err: the branch that prints "Cannot free a chunk that's already free"
hfree(h0, p) ==
  Bind(init(h0), LAMBDA h1 :
  Bind(p - H_IS, LAMBDA theChunk :
    IF hfree_test(ReadInfo(h1.mem, theChunk))
      THEN Bind(ck_size(h1.mem, theChunk), LAMBDA size :
           Bind(ck_setInfo(h1.mem, theChunk, OrFree(size)), LAMBDA m1 :
           [h |-> [h1 EXCEPT !.mem = fl_insert(m1, FreeList, theChunk)],
            err |-> FALSE]))
      ELSE [h |-> h1, err |-> TRUE]))

\* the number of bytes hrealloc copies out of the old block
hrealloc_copylen(oldPayload, size) == size

\* hrealloc without its capacity test: every call moves the block
hrealloc_always(h0, p, size, fwd) ==
  Bind(hmalloc(init(h0), size), LAMBDA r :
    IF r.h.fault THEN [h |-> r.h, ret |-> 0, copied |-> 0]
    ELSE Bind(memcpy(r.h.mem, r.ret, p, IF size < ck_payloadSize(r.h.mem, p - H_IS) THEN size ELSE ck_payloadSize(r.h.mem, p - H_IS), fwd), LAMBDA m1 :
         [h |-> [r.h EXCEPT !.mem = m1], ret |-> r.ret, copied |-> size]))

\* copied: the number of bytes read from p on (0: nothing was copied)
hrealloc(h0, p, size, fwd) ==
  Bind(init(h0), LAMBDA h1 :
  Bind(p - H_IS, LAMBDA c :
    IF ck_payloadSize(h1.mem, c) < size
      THEN Bind(hmalloc(h1, size), LAMBDA r :
           Bind(hrealloc_copylen(ck_payloadSize(h1.mem, c), size), LAMBDA n :
             IF r.h.fault THEN [h |-> r.h, ret |-> 0, copied |-> 0]
             ELSE IF ~InMem(r.h.mem, p, n) \/ ~InMem(r.h.mem, r.ret, n)
               THEN [h |-> [r.h EXCEPT !.fault = TRUE], ret |-> 0, copied |-> 0]
               ELSE Bind(memcpy(r.h.mem, r.ret, p, n, fwd), LAMBDA m1 :
                    Bind(hfree([r.h EXCEPT !.mem = m1], p), LAMBDA f :
                    [h |-> f.h, ret |-> r.ret, copied |-> n]))))
      ELSE [h |-> h1, ret |-> p, copied |-> 0]))

\* the size hstrdup asks of hmalloc for the string s
hstrdup_size(s) == Len(s)

hstrdup(h0, s) ==
  Bind(hmalloc(h0, hstrdup_size(s)), LAMBDA r :
    IF r.h.fault THEN r
    ELSE IF ~InMem(r.h.mem, r.ret, Len(s) + 1)
      THEN [h |-> [r.h EXCEPT !.fault = TRUE], ret |-> 0]
      ELSE [h |-> [r.h EXCEPT !.mem = strcpy(r.h.mem, r.ret, s)], ret |-> r.ret])

\* hprint's walk of the segment from p: the chunks between the dummy tags
RECURSIVE hp_walk(_, _, _, _, _)
hp_walk(m, p, hwm, inSeg, k) ==
  IF p >= hwm \/ k = 0 THEN {}
  ELSE IF ~inSeg
    THEN IF ReadInfo(m, p) = 0 THEN hp_walk(m, p + H_IS, hwm, TRUE, k - 1) ELSE {}
    ELSE IF ck_size(m, p) # 0
      THEN {p} \cup hp_walk(m, p + ck_size(m, p), hwm, TRUE, k - 1)
      ELSE hp_walk(m, p + H_IS, hwm, FALSE, k - 1)

\* ------------------------------------------------------------------------
\* The state machine: one process calling the public methods

VARIABLES
  mem,        \* the bytes from the FreeList anchor up to the program break
  BASE,       \* pointer to first byte allocated
  HWM,        \* high water mark; first byte not allocated
  PAGE_SIZE,  \* the page size captured by init
  brk,        \* the program break
  rlimit,     \* the highest break the system grants
  fault,      \* the process was ended by a store through an invalid pointer
  live,       \* the caller's pointers: returned and not yet released
  req,        \* for each returned pointer, the bytes its caller asked for
  last,       \* the last public call: its arguments and what it gave back
  calls       \* the number of public calls made so far

vars == << mem, BASE, HWM, PAGE_SIZE, brk, rlimit, fault, live, req, last, calls >>

\* the inputs the callers draw from
MallocSizes == {0, 1, PageSize - 15, IntMax}
CallocArgs == {<< 0, 4 >>, << 3, 4 >>, << 1, IntMax >>}
ReallocSizes == {16, PageSize + 6, IntMax}
StrLens == {2, PageSize - 16}

\* a string of L characters, none of them the terminator
Str(L) == [i \in 1..L |-> 65 + (i % 26)] @@ << >>
\* what a caller stores in the i-th byte of a block
UserByte(i) == 1 + (i % 251)

H == [mem |-> mem, BASE |-> BASE, HWM |-> HWM, PAGE_SIZE |-> PAGE_SIZE,
      brk |-> brk, rlimit |-> rlimit, fault |-> fault]

SetH(h) ==
  /\ mem' = h.mem
  /\ BASE' = h.BASE
  /\ HWM' = h.HWM
  /\ PAGE_SIZE' = h.PAGE_SIZE
  /\ brk' = h.brk
  /\ rlimit' = h.rlimit
  /\ fault' = h.fault

\* one more public call is made, if the run has calls left
Call ==
  /\ ~fault
  /\ calls < MaxCalls
  /\ calls' = calls + 1

NoCall == [op |-> "none", a1 |-> 0, a2 |-> 0, ret |-> 0, err |-> FALSE,
           copied |-> 0, again |-> FALSE]

Init ==
  /\ mem = [a \in FreeList..(InitBrk - 1) |-> 0]
  /\ BASE = 0
  /\ HWM = 0
  /\ PAGE_SIZE = 0
  /\ brk = InitBrk
  /\ rlimit = IntMax
  /\ fault = FALSE
  /\ live = {}
  /\ req = << >>
  /\ last = NoCall
  /\ calls = 0

\* the caller's books after an allocating call that asked for n bytes
Returned(r, n) ==
  /\ live' = IF r.h.fault THEN live ELSE live \cup {r.ret}
  /\ req' = IF r.h.fault THEN req ELSE (r.ret :> n) @@ req

Hmalloc(n) ==
  /\ Call
  /\ \E r \in {hmalloc(H, n)} :
       /\ SetH(r.h)
       /\ Returned(r, n)
       /\ last' = [NoCall EXCEPT !.op = "hmalloc", !.a1 = n, !.ret = r.ret]

Hcalloc(count, size) ==
  /\ Call
  /\ \E r \in {hcalloc(H, count, size)} :
       /\ SetH(r.h)
       /\ Returned(r, count * size)
       /\ last' = [NoCall EXCEPT !.op = "hcalloc", !.a1 = count, !.a2 = size,
                                 !.ret = r.ret]

Hstrdup(s) ==
  /\ Call
  /\ \E r \in {hstrdup(H, s)} :
       /\ SetH(r.h)
       /\ Returned(r, Len(s))
       /\ last' = [NoCall EXCEPT !.op = "hstrdup", !.a1 = Len(s), !.ret = r.ret]

Hrealloc(p, size, fwd) ==
  /\ Call
  /\ p \in live
  /\ \E r \in {hrealloc(H, p, size, fwd)} :
       /\ SetH(r.h)
       /\ live' = IF r.h.fault THEN live ELSE (live \ {p}) \cup {r.ret}
       /\ req' = IF r.h.fault THEN req ELSE (r.ret :> size) @@ req
       /\ last' = [NoCall EXCEPT !.op = "hrealloc", !.a1 = p, !.a2 = size,
                                 !.ret = r.ret, !.copied = r.copied]

\* a release of a live pointer, or once more of the pointer just released.
\* a2: the size asked of the hmalloc that returned p in the call before
\* (-1: the call before was no such hmalloc).
Hfree(p) ==
  /\ Call
  /\ p \in live \/ (last.op = "hfree" /\ last.a1 = p)
  /\ \E r \in {hfree(H, p)} :
       /\ SetH(r.h)
       /\ live' = live \ {p}
       /\ req' = req
       /\ last' = [NoCall EXCEPT !.op = "hfree", !.a1 = p,
                                 !.a2 = IF last.op = "hmalloc" /\ last.ret = p
                                          THEN last.a1 ELSE -1,
                                 !.err = r.err,
                                 !.again = (last.op = "hfree" /\ last.a1 = p)]

\* the caller fills the block it was just given: the bytes it asked for, and
\* no more
UserWrite(p) ==
  /\ ~fault
  /\ p \in live
  /\ p = last.ret
  /\ req[p] > 0
  /\ mem' = [a \in p..(p + req[p] - 1) |-> UserByte(a - p)] @@ mem
  /\ UNCHANGED << BASE, HWM, PAGE_SIZE, brk, rlimit, fault, live, req, last, calls >>

Next ==
  \/ \E n \in MallocSizes : Hmalloc(n)
  \/ \E cs \in CallocArgs : Hcalloc(cs[1], cs[2])
  \/ \E L \in StrLens : Hstrdup(Str(L))
  \/ \E p \in live, size \in ReallocSizes, fwd \in BOOLEAN : Hrealloc(p, size, fwd)
  \/ \E p \in DOMAIN req : Hfree(p)
  \/ \E p \in live : UserWrite(p)

Spec == Init /\ [][Next]_vars

\* ------------------------------------------------------------------------
\* What the properties below speak of

\* the chunk behind a payload pointer (hfree line 435, hrealloc line 415)
ChunkOf(p) == p - H_IS

\* the payload capacity of the block p, in the memory m
Capacity(m, p) == ck_payloadSize(m, ChunkOf(p))

\* every chunk of the segment, free or in use, as hprint lists them
Chunks == hp_walk(mem, BASE, HWM, FALSE, 3 * MaxCalls + 3)

\* the chunks reachable from the FreeList anchor
FreeChunks(m) == {fl_members(m, FreeList)[i] : i \in 1..fl_size(m, FreeList)}

TagsAgree(m, c) == ReadInfo(m, c) = ReadInfo(m, ck_footerAddr(m, c))

Min(a, b) == IF a < b THEN a ELSE b

\* the step is a public call of the method op
Calls(op) == calls' = calls + 1 /\ last'.op = op

\* ------------------------------------------------------------------------
\* C1: hmalloc(n), n >= 0, returns a pointer to a chunk whose payload
\* capacity is at least n and at least H_MINPAYLOAD.
C1_HmallocCapacity ==
  (last.op = "hmalloc" /\ last.a1 >= 0) =>
    /\ ~fault
    /\ last.ret # 0
    /\ Capacity(mem, last.ret) >= last.a1
    /\ Capacity(mem, last.ret) >= H_MINPAYLOAD

\* C2: hfree(p) on a live pointer sets H_FREE in the chunk's header and
\* footer and puts the chunk on the free list, whose size grows by one.
C2_HfreeReleases ==
  [][(Calls("hfree") /\ last'.a1 \in live) =>
       /\ FreeBit(ReadInfo(mem', ChunkOf(last'.a1))) = 1
       /\ FreeBit(ReadInfo(mem', ck_footerAddr(mem', ChunkOf(last'.a1)))) = 1
       /\ ChunkOf(last'.a1) \in FreeChunks(mem')
       /\ fl_size(mem', FreeList) = fl_size(mem, FreeList) + 1]_vars

\* C3: after p = hmalloc(n); hfree(p), a call hmalloc(m) with 0 <= m <= n
\* leaves the high-water mark where it was.
C3_RoundTripReuse ==
  [][(Calls("hmalloc") /\ last.op = "hfree" /\ last.a2 >= 0
        /\ last'.a1 >= 0 /\ last'.a1 <= last.a2) =>
       HWM' = HWM]_vars

\* C4: the second of two hfree(p) in a row takes the error branch and
\* changes nothing: memory (tags, links, free list), BASE and HWM stay.
C4_DoubleRelease ==
  [][(Calls("hfree") /\ last'.again) =>
       /\ last'.err
       /\ mem' = mem
       /\ fl_members(mem', FreeList) = fl_members(mem, FreeList)
       /\ BASE' = BASE
       /\ HWM' = HWM]_vars

C4_Witness == last.op = "hfree" /\ last.again /\ last.err /\ ~fault

\* C5: hrealloc(p, newSize) with newSize above p's capacity P returns a
\* block of capacity >= newSize whose first min(P, newSize) bytes are the
\* bytes p's payload held before the call.
C5_ResizePreserves ==
  [][(Calls("hrealloc") /\ last'.a1 \in live
        /\ last'.a2 > Capacity(mem, last'.a1)) =>
       /\ ~fault'
       /\ Capacity(mem', last'.ret) >= last'.a2
       /\ \A i \in 0..(Min(Capacity(mem, last'.a1), last'.a2) - 1) :
            mem'[last'.ret + i] = mem[last'.a1 + i]]_vars

\* C6: on the reallocating path hrealloc copies at most
\* min(old payload size, newSize) bytes out of the old block.
C6_CopyLength ==
  [][(Calls("hrealloc") /\ last'.copied > 0) =>
       last'.copied <= Min(Capacity(mem, last'.a1), last'.a2)]_vars

\* C7: hstrdup(s) returns a block of capacity >= strlen(s) + 1, so the copy
\* with its terminator leaves the chunk's footer tag as it was.
C7_HstrdupCapacity ==
  [][Calls("hstrdup") =>
       /\ ~fault'
       /\ Capacity(mem', last'.ret) >= last'.a1 + 1
       /\ TagsAgree(mem', ChunkOf(last'.ret))]_vars

\* C8: hcalloc(count, size) with n = count*size returns a payload of
\* capacity >= n whose first n bytes are zero.
C8_HcallocZero ==
  [][(Calls("hcalloc") /\ last'.a1 >= 0 /\ last'.a2 >= 0
        /\ last'.a1 * last'.a2 <= IntMax) =>
       /\ ~fault'
       /\ Capacity(mem', last'.ret) >= last'.a1 * last'.a2
       /\ \A i \in 0..(last'.a1 * last'.a2 - 1) : mem'[last'.ret + i] = 0]_vars

\* C9: between calls every chunk of the segment has its header tag equal
\* to its footer tag.
C9_TagsAgree ==
  (BASE # 0 /\ ~fault) => \A c \in Chunks : TagsAgree(mem, c)

\* C10: between calls a chunk is on the free list exactly if its H_FREE
\* flag is set, no chunk is on the list twice, and every block a caller
\* holds has H_FREE clear and is off the list.
C10_Membership ==
  (BASE # 0 /\ ~fault) =>
    \A all \in {Chunks}, listed \in {FreeChunks(mem)} :
      /\ listed \subseteq all
      /\ \A c \in all : (c \in listed) <=> (FreeBit(ReadInfo(mem, c)) = 1)
      /\ Cardinality(listed) = fl_size(mem, FreeList)
      /\ \A p \in live : /\ ChunkOf(p) \in all
                         /\ FreeBit(ReadInfo(mem, ChunkOf(p))) = 0
                         /\ ChunkOf(p) \notin listed

C10_Witness ==
  /\ ~fault
  /\ last.op = "hfree"
  /\ live # {}
  /\ Cardinality(Chunks) >= 2

\* ------------------------------------------------------------------------
\* The same process on a system that grants two pages and no more

RlimitOOM == InitBrk + 2 * PageSize

InitOOM ==
  /\ mem = [a \in FreeList..(InitBrk - 1) |-> 0]
  /\ BASE = 0
  /\ HWM = 0
  /\ PAGE_SIZE = 0
  /\ brk = InitBrk
  /\ rlimit = RlimitOOM
  /\ fault = FALSE
  /\ live = {}
  /\ req = << >>
  /\ last = NoCall
  /\ calls = 0

SpecOOM == InitOOM /\ [][Next]_vars

\* the high-water mark a call starts from, once init has run
HWM0 == IF BASE = 0 THEN brk ELSE HWM

\* hmalloc(n) finds no chunk on the free list: fl_findBestFit gives the anchor
NoFit(n) ==
  \A h \in {init(H)} :
    ReadInfo(h.mem, fl_findBestFit(h.mem, FreeList, hmalloc_clamp(n))) = 0

\* the sbrk call of grow, for a request of n bytes, asks for more than the
\* system has left and is refused
SbrkFails(n) ==
  \A h \in {init(H)} :
    /\ grow_delta(hmalloc_clamp(n), h.PAGE_SIZE) > 0
    /\ sbrk(h, grow_delta(hmalloc_clamp(n), h.PAGE_SIZE)).ret = -1

\* C11: when hmalloc(n) finds no free chunk that fits, the segment grows
\* once: HWM advances by a positive multiple of PAGE_SIZE that is at least
\* n + 4*H_IS, the new range begins and ends with a zero tag around one
\* chunk, and the returned pointer lies in [old HWM, new HWM).
C11_GrowthCorrect ==
  [][(Calls("hmalloc") /\ last'.a1 >= 0 /\ NoFit(last'.a1)) =>
       /\ ~fault'
       /\ HWM' > HWM0
       /\ (HWM' - HWM0) % PageSize = 0
       /\ HWM' - HWM0 >= last'.a1 + 4 * H_IS
       /\ ReadInfo(mem', HWM0) = 0
       /\ ReadInfo(mem', HWM' - H_IS) = 0
       /\ ck_size(mem', HWM0 + H_IS) = HWM' - HWM0 - 2 * H_IS
       /\ last'.ret >= HWM0
       /\ last'.ret < HWM']_vars

\* C12: hmalloc(1) returns a chunk whose payload capacity is exactly
\* H_MINPAYLOAD.
C12_MinimumPayload ==
  (last.op = "hmalloc" /\ last.a1 = 1) =>
    /\ ~fault
    /\ Capacity(mem, last.ret) = H_MINPAYLOAD

\* C13: hrealloc(p, newSize) on a block whose capacity is already >= newSize
\* returns p and changes nothing: memory (tags, payload, free list), BASE
\* and HWM stay.
C13_HreallocInPlace ==
  [][(Calls("hrealloc") /\ last'.a1 \in live
        /\ Capacity(mem, last'.a1) >= last'.a2) =>
       /\ ~fault'
       /\ last'.ret = last'.a1
       /\ mem' = mem
       /\ BASE' = BASE
       /\ HWM' = HWM]_vars

C13_Witness ==
  /\ last.op = "hrealloc"
  /\ last.ret = last.a1
  /\ last.ret \in live
  /\ Capacity(mem, last.ret) >= last.a2

\* C14: when sbrk refuses the growth an allocation needs, the call ends in
\* an explicit failure: no store through the refused pointer (no fault), no
\* pointer returned, memory (the free list with it) and HWM as they were.
C14_GrowthFailure ==
  [][(Calls("hmalloc") /\ NoFit(last'.a1) /\ SbrkFails(last'.a1)) =>
       /\ ~fault'
       /\ last'.ret = 0
       /\ HWM' = HWM0
       /\ \A a \in DOMAIN mem \ (FreeList..(InitBrk - 1)) : mem'[a] = mem[a]
       /\ BASE' # 0 => fl_size(mem', FreeList) = 0]_vars

\* C19: the payloads of the blocks callers hold are pairwise disjoint, lie
\* inside [BASE, HWM) and overlap no chunk of the free list.
C19_PayloadsDisjoint ==
  (BASE # 0 /\ ~fault) =>
    \A p \in live :
      /\ p >= BASE
      /\ p + Capacity(mem, p) <= HWM
      /\ \A q \in live \ {p} :
           p + Capacity(mem, p) <= q \/ q + Capacity(mem, q) <= p
      /\ \A c \in FreeChunks(mem) :
           p + Capacity(mem, p) <= c \/ c + ck_size(mem, c) <= p

C19_Witness ==
  /\ ~fault
  /\ Cardinality(live) >= 2
  /\ last.op = "hrealloc"
  /\ last.ret # last.a1

\* C20: between calls the free list is empty, and every hmalloc call takes
\* the grow path and advances HWM by at least one page.
C20_AlwaysGrows ==
  [][/\ (BASE' # 0 /\ ~fault') =>
          (NextOf(mem', FreeList) = FreeList /\ fl_size(mem', FreeList) = 0)
     /\ Calls("hmalloc") => (NoFit(last'.a1) /\ HWM' >= HWM0 + PageSize)]_vars

\* ------------------------------------------------------------------------
\* The private functions on their own: fl_findBestFit, ck_split and ck_merge
\* applied once to a segment of free chunks, all of them on the free list

\* the most chunks a segment starts with
MaxChunks == 3

\* the payload capacities of the chunks
Caps == {16, 64, 128}

\* a segment: the capacities of its chunks, by address
Layouts == UNION {[1..n -> Caps] : n \in 0..MaxChunks}

\* the orders in which n chunks are put on the list
Orders(n) == {f \in [1..n -> 1..n] : \A i, j \in 1..n : f[i] = f[j] => i = j}

\* the address of the k-th chunk of the segment lay
RECURSIVE ChunkAt(_, _)
ChunkAt(lay, k) ==
  IF k = 1 THEN InitBrk + H_IS
  ELSE ChunkAt(lay, k - 1) + lay[k - 1] + 2 * H_IS

\* the bytes of the segment lay: two dummy tags around its chunks
SegLen(lay) == ChunkAt(lay, Len(lay) + 1) - InitBrk + H_IS

\* header and footer of the chunks from the k-th on, marked free
RECURSIVE LayTags(_, _, _)
LayTags(m, lay, k) ==
  IF k > Len(lay) THEN m
  ELSE Bind(ck_setInfo(m, ChunkAt(lay, k), OrFree(lay[k] + 2 * H_IS)), LAMBDA m1 :
       LayTags(m1, lay, k + 1))

\* the chunks ord[k], ord[k+1], ... put on the free list, in that order
RECURSIVE LayList(_, _, _, _)
LayList(m, lay, ord, k) ==
  IF k > Len(lay) THEN m
  ELSE Bind(fl_insert(m, FreeList, ChunkAt(lay, ord[k])), LAMBDA m1 :
       LayList(m1, lay, ord, k + 1))

\* the allocator state with the segment lay, its chunks listed in order ord
HeapOf(lay, ord) ==
  Bind(init([mem |-> [a \in FreeList..(InitBrk - 1) |-> 0], BASE |-> 0, HWM |-> 0,
             PAGE_SIZE |-> 0, brk |-> InitBrk, rlimit |-> IntMax,
             fault |-> FALSE]), LAMBDA h1 :
  Bind(sbrk(h1, SegLen(lay)), LAMBDA s :
  Bind(WriteInfo(s.h.mem, InitBrk, 0), LAMBDA m1 :
  Bind(WriteInfo(m1, s.h.brk - H_IS, 0), LAMBDA m2 :
  Bind(LayTags(m2, lay, 1), LAMBDA m3 :
  [s.h EXCEPT !.HWM = s.h.brk, !.mem = LayList(m3, lay, ord, 1)])))))

InitUnit ==
  /\ \E lay \in Layouts :
       \E ord \in Orders(Len(lay)) :
         \E h \in {HeapOf(lay, ord)} :
           /\ mem = h.mem
           /\ BASE = h.BASE
           /\ HWM = h.HWM
           /\ PAGE_SIZE = h.PAGE_SIZE
           /\ brk = h.brk
           /\ rlimit = h.rlimit
           /\ fault = h.fault
  /\ live = {}
  /\ req = << >>
  /\ last = NoCall
  /\ calls = 0

\* the arguments the functions are applied to
Targets == {16, 50, 64, 129}
SplitSizes == {-8, 8, 16, 17, 40, 64, 128}

\* one application, to the segment as it was laid out
Once ==
  /\ last.op = "none"
  /\ calls' = calls + 1
  /\ UNCHANGED << BASE, HWM, PAGE_SIZE, brk, rlimit, live, req >>

FindBestFit(t) ==
  /\ Once
  /\ last' = [NoCall EXCEPT !.op = "fl_findBestFit", !.a1 = t,
                            !.ret = fl_findBestFit(mem, FreeList, t)]
  /\ UNCHANGED << mem, fault >>

\* ck_split(c, paysize) goes on to cut the chunk: neither test returns 0
ck_split_cuts(m, c, paysize0) ==
  /\ ~LtSizeT(paysize0, H_MINPAYLOAD)
  /\ ~LtSizeT(WrapSub(ck_size(m, c), WrapAdd(RoundUpPS(paysize0), 2 * H_IS)),
              H_MINCHUNK)

\* every store of a cutting ck_split(c, paysize) falls inside the memory: c's
\* new footer, the tags of d and the links of d
ck_split_inMem(m, c, paysize0) ==
  \A size_c \in {WrapAdd(RoundUpPS(paysize0), 2 * H_IS)} :
    \A size_d \in {WrapSub(ck_size(m, c), size_c)} :
      /\ InMem(m, c + size_c - H_IS, H_IS)
      /\ InMem(m, c + size_c, H_IS + 2 * H_PS)
      /\ InMem(m, c + size_c + SizeMask(OrFree(size_d)) - H_IS, H_IS)

Split(c, paysize) ==
  /\ Once
  /\ IF ck_split_cuts(mem, c, paysize) /\ ~ck_split_inMem(mem, c, paysize)
       THEN /\ fault' = TRUE
            /\ mem' = mem
            /\ last' = [NoCall EXCEPT !.op = "ck_split", !.a1 = c, !.a2 = paysize]
       ELSE \E r \in {ck_split(mem, c, paysize)} :
              /\ fault' = fault
              /\ mem' = r.m
              /\ last' = [NoCall EXCEPT !.op = "ck_split", !.a1 = c,
                                        !.a2 = paysize, !.ret = r.ret]

\* pre: c1 and c2 are adjacent free chunks with c1 < c2 (and on the list)
Merge(c1, c2) ==
  /\ Once
  /\ c2 = c1 + ck_size(mem, c1)
  /\ FreeBit(ReadInfo(mem, c1)) = 1
  /\ FreeBit(ReadInfo(mem, c2)) = 1
  /\ {c1, c2} \subseteq FreeChunks(mem)
  /\ mem' = ck_merge(mem, c1, c2)
  /\ last' = [NoCall EXCEPT !.op = "ck_merge", !.a1 = c1, !.a2 = c2]
  /\ UNCHANGED fault

NextUnit ==
  \/ \E t \in Targets : FindBestFit(t)
  \/ \E c \in Chunks, paysize \in SplitSizes : Split(c, paysize)
  \/ \E c1 \in Chunks, c2 \in Chunks : Merge(c1, c2)

SpecUnit == InitUnit /\ [][NextUnit]_vars

\* the listed chunks that can hold t bytes
Fits(m, t) == {c \in FreeChunks(m) : ck_payloadSize(m, c) >= t}

\* how often c is met on the way round the free list
Listed(m, c) ==
  Cardinality({i \in 1..fl_size(m, FreeList) : fl_members(m, FreeList)[i] = c})

\* p rounded up to a multiple of 8
roundup8(p) == ((p + 7) \div 8) * 8

\* the list anchored at FreeList is circular and doubly linked
fl_wellFormed(m) ==
  /\ fl_size(m, FreeList) < 2 * MaxCalls + 2
  /\ \A c \in FreeChunks(m) \cup {FreeList} :
       /\ InMem(m, c, H_IS + 2 * H_PS)
       /\ InMem(m, NextOf(m, c), H_IS + 2 * H_PS)
       /\ PrevOf(m, NextOf(m, c)) = c
       /\ InMem(m, PrevOf(m, c), H_IS + 2 * H_PS)
       /\ NextOf(m, PrevOf(m, c)) = c

\* C15: fl_findBestFit returns a listed chunk of the least capacity among
\* those of capacity >= targetPayload, and the anchor only when there is none.
C15_BestFit ==
  (last.op = "fl_findBestFit") =>
    IF Fits(mem, last.a1) = {}
      THEN last.ret = FreeList
      ELSE /\ last.ret \in Fits(mem, last.a1)
           /\ \A d \in Fits(mem, last.a1) :
                ck_payloadSize(mem, last.ret) <= ck_payloadSize(mem, d)

\* C16: when ck_split(c, paysize) succeeds, c has size roundup8(paysize) +
\* 2*H_IS, the remainder begins where c now ends, the two sizes add up to
\* c's old size, the remainder is at least H_MINCHUNK, is marked free with
\* header equal to footer, and is on the free list once.
C16_SplitConserves ==
  [][(Calls("ck_split") /\ (fault' \/ last'.ret # 0)) =>
       /\ ~fault'
       /\ ck_size(mem', last'.a1) = roundup8(last'.a2) + 2 * H_IS
       /\ last'.ret = last'.a1 + ck_size(mem', last'.a1)
       /\ ck_size(mem', last'.a1) + ck_size(mem', last'.ret) = ck_size(mem, last'.a1)
       /\ ck_size(mem', last'.ret) >= H_MINCHUNK
       /\ FreeBit(ReadInfo(mem', last'.ret)) = 1
       /\ TagsAgree(mem', last'.ret)
       /\ Listed(mem', last'.ret) = 1]_vars

\* C17: when paysize < H_MINPAYLOAD, or size(c) - (roundup8(paysize) +
\* 2*H_IS) < H_MINCHUNK, ck_split returns 0 and leaves c's header, c's
\* footer and the free list as they were.
C17_SplitInfeasible ==
  [][(Calls("ck_split")
        /\ (\/ last'.a2 < H_MINPAYLOAD
            \/ ck_size(mem, last'.a1) - (roundup8(last'.a2) + 2 * H_IS) < H_MINCHUNK)) =>
       /\ ~fault'
       /\ last'.ret = 0
       /\ ReadInfo(mem', last'.a1) = ReadInfo(mem, last'.a1)
       /\ ReadInfo(mem', ck_footerAddr(mem, last'.a1))
            = ReadInfo(mem, ck_footerAddr(mem, last'.a1))
       /\ fl_members(mem', FreeList) = fl_members(mem, FreeList)]_vars

\* C18: after ck_merge(c1, c2) on adjacent free listed chunks the free list
\* is a circular doubly-linked list that holds c1 once, with the sum of the
\* two sizes and H_FREE set, does not hold c2, and holds every other chunk
\* it held before.
C18_MergeKeepsList ==
  [][Calls("ck_merge") =>
       /\ fl_wellFormed(mem')
       /\ Listed(mem', last'.a1) = 1
       /\ ck_size(mem', last'.a1) = ck_size(mem, last'.a1) + ck_size(mem, last'.a2)
       /\ FreeBit(ReadInfo(mem', last'.a1)) = 1
       /\ last'.a2 \notin FreeChunks(mem')
       /\ (FreeChunks(mem) \ {last'.a1, last'.a2}) \subseteq FreeChunks(mem')]_vars

====
